---- MODULE Spec2Model ----
(***************************************************************************)
(* Model of src/ML_Group.py: the content-to-slide pipeline                 *)
(*   generate_presentation -> enhance_content_with_ai                      *)
(*     (bullet parsing, Gemini call, parse_ai_response, slide assembly,    *)
(*      fallback grouping, slide-count limit) -> create_presentation.      *)
(*                                                                         *)
(* Representation of Python values                                         *)
(*   A Python str is a sequence of fragments (TLA+ strings).  Text typed   *)
(*   by the user is held one character per fragment, so that strip,        *)
(*   lstrip, split and startswith are computed character by character;     *)
(*   a literal of the program ("Next Steps") is one fragment.  In AI       *)
(*   text the character "." is always a fragment of its own.               *)
(*   A Python value (str, number, None, list, dict) is a record            *)
(*     [t, s, keys, items]  with t its type tag, s its text, and for a     *)
(*   dict the keys (in insertion order) and the values in items.           *)
(*   The text returned by the model is a sequence of lexical tokens        *)
(*     [k, s]  (punctuation, string literal, number, null, prose word);    *)
(*   the JSON literals true and false are not among them.                  *)
(***************************************************************************)
EXTENDS Integers, Sequences, FiniteSets, TLC

\* ------------------------------------------------------------------ bounds
\* most lines in the text area
MaxLines == 3
\* most elements of the "points" array of an AI answer
MaxPoints == 2
\* most prose tokens before or after the JSON object in an AI answer
MaxProse == 2

\* slider bounds of slide_count
MinSlides == 3
MaxSlides == 15

\* ------------------------------------------------------------ str helpers
Whitespace == {" ", "\t", "\n"}

UpperOf(c) ==
    CASE c = "a" -> "A" [] c = "b" -> "B" [] c = "c" -> "C" [] c = "x" -> "X"
      [] c = "tourists" -> "Tourists"
      [] c = "provide travel information" -> "Provide travel information"
      [] OTHER -> c

LowerOf(c) ==
    CASE c = "A" -> "a" [] c = "B" -> "b" [] c = "C" -> "c" [] c = "X" -> "x"
      [] OTHER -> c

IsAlpha(c) == c \notin Whitespace /\ c \notin {"-", ".", ":"}

\* s[from..] as a sequence (empty when from > Len(s))
Drop(s, n) == SubSeq(s, n + 1, Len(s))

Take(s, n) == SubSeq(s, 1, IF n < Len(s) THEN n ELSE Len(s))

\* str.lstrip(chars)
RECURSIVE LStripChars(_, _)
LStripChars(s, chars) ==
    IF s # <<>> /\ Head(s) \in chars THEN LStripChars(Tail(s), chars) ELSE s

RECURSIVE RStripChars(_, _)
RStripChars(s, chars) ==
    IF s # <<>> /\ s[Len(s)] \in chars
    THEN RStripChars(SubSeq(s, 1, Len(s) - 1), chars) ELSE s

\* str.strip()
Strip(s) == RStripChars(LStripChars(s, Whitespace), Whitespace)

\* str.startswith(c) for a one-character c
StartsWith(s, c) == s # <<>> /\ Head(s) = c

\* str.split(sep) for a one-character sep: always at least one piece
RECURSIVE SplitOn(_, _)
SplitOn(s, sep) ==
    IF \E i \in 1..Len(s) : s[i] = sep
    THEN LET i == CHOOSE j \in 1..Len(s) :
                     s[j] = sep /\ \A k \in 1..(j - 1) : s[k] # sep
         IN  <<SubSeq(s, 1, i - 1)>> \o SplitOn(Drop(s, i), sep)
    ELSE <<s>>

\* str.split(): pieces between runs of whitespace, none empty
RECURSIVE SplitWords(_)
SplitWords(s) ==
    LET t == LStripChars(s, Whitespace)
    IN  IF t = <<>> THEN <<>>
        ELSE IF \E i \in 1..Len(t) : t[i] \in Whitespace
        THEN LET i == CHOOSE j \in 1..Len(t) :
                         t[j] \in Whitespace /\ \A k \in 1..(j - 1) : t[k] \notin Whitespace
             IN  <<SubSeq(t, 1, i - 1)>> \o SplitWords(Drop(t, i))
        ELSE <<t>>

\* " ".join(words)
RECURSIVE JoinSpace(_)
JoinSpace(words) ==
    IF words = <<>> THEN <<>>
    ELSE IF Len(words) = 1 THEN words[1]
    ELSE words[1] \o <<" ">> \o JoinSpace(Tail(words))

\* str.title(): a letter after a non-letter is upper-cased, the others lower-cased
TitleCase(s) ==
    [i \in 1..Len(s) |->
        IF IsAlpha(s[i])
        THEN IF i = 1 \/ ~IsAlpha(s[i - 1]) THEN UpperOf(s[i]) ELSE LowerOf(s[i])
        ELSE s[i]]

\* str.capitalize(): first character upper-cased, the rest lower-cased
Capitalize(s) ==
    [i \in 1..Len(s) |-> IF i = 1 THEN UpperOf(s[i]) ELSE LowerOf(s[i])]

\* --------------------------------------------------------- bullet parsing
\* the filter without its startswith('-') test
IsBulletLineAnyText(pt) == Strip(pt) # <<>>

IsBulletLine(pt) == Strip(pt) # <<>> /\ StartsWith(Strip(pt), "-")

BulletText(pt) == LStripChars(Strip(pt), {"-", " "})

\* points = [pt.strip().lstrip('- ') for pt in bullet_points.split('\n')
\*           if pt.strip() and pt.strip().startswith('-')]
RECURSIVE BulletsOf(_)
BulletsOf(lines) ==
    IF lines = <<>> THEN <<>>
    ELSE (IF IsBulletLine(Head(lines)) THEN <<BulletText(Head(lines))>> ELSE <<>>)
         \o BulletsOf(Tail(lines))

ParseBullets(text) == BulletsOf(SplitOn(text, "\n"))


\* ---------------------------------------------------------- Python values
PyNone == [t |-> "none", s |-> <<>>, keys |-> <<>>, items |-> <<>>]

PyStr(s) == [t |-> "str", s |-> s, keys |-> <<>>, items |-> <<>>]

PyNum(s) == [t |-> "num", s |-> s, keys |-> <<>>, items |-> <<>>]

PyList(items) == [t |-> "list", s |-> <<>>, keys |-> <<>>, items |-> items]

PyDict(keys, items) == [t |-> "dict", s |-> <<>>, keys |-> keys, items |-> items]

\* bool(v)
Truthy(v) ==
    CASE v.t = "none" -> FALSE
      [] v.t = "str"  -> v.s # <<>>
      [] v.t = "num"  -> v.s # <<"0">>
      [] v.t = "list" -> v.items # <<>>
      [] v.t = "dict" -> v.keys # <<>>
      [] OTHER -> FALSE

\* key in d
HasKey(d, k) == \E i \in 1..Len(d.keys) : d.keys[i] = <<k>>

\* d[key]
GetKey(d, k) == d.items[CHOOSE i \in 1..Len(d.keys) : d.keys[i] = <<k>>]

\* d[key] = v on the pair of sequences of a dict: a repeated key keeps its place
\* and takes the last value
DictPut(d, k, v) ==
    IF \E i \in 1..Len(d.keys) : d.keys[i] = k
    THEN LET i == CHOOSE j \in 1..Len(d.keys) : d.keys[j] = k
         IN  PyDict(d.keys, [d.items EXCEPT ![i] = v])
    ELSE PyDict(Append(d.keys, k), Append(d.items, v))

\* a == b on Python values: dicts compare as mappings, whatever the key order
RECURSIVE PyEq(_, _)
PyEq(a, b) ==
    /\ a.t = b.t
    /\ a.s = b.s
    /\ IF a.t = "dict"
       THEN /\ {a.keys[i] : i \in 1..Len(a.keys)} = {b.keys[i] : i \in 1..Len(b.keys)}
            /\ \A i \in 1..Len(a.keys) : \A j \in 1..Len(b.keys) :
                  a.keys[i] = b.keys[j] => PyEq(a.items[i], b.items[j])
       ELSE /\ Len(a.items) = Len(b.items)
            /\ \A i \in 1..Len(a.items) : PyEq(a.items[i], b.items[i])

\* ------------------------------------------------- text of the AI answer
Punct(c) == [k |-> "punct", s |-> <<c>>]

StrTok(s) == [k |-> "str", s |-> s]

NumTok(s) == [k |-> "num", s |-> s]

NullTok == [k |-> "null", s |-> <<>>]

Word(w) == [k |-> "word", s |-> <<w>>]

EndTok == [k |-> "end", s |-> <<>>]

TokAt(toks, i) == IF i \in 1..Len(toks) THEN toks[i] ELSE EndTok

\* json.dumps, token by token (how a JSON document of these values is written)
RECURSIVE Encode(_)
RECURSIVE EncodeElems(_)
RECURSIVE EncodeMembers(_, _)
Encode(v) ==
    CASE v.t = "str"  -> <<StrTok(v.s)>>
      [] v.t = "num"  -> <<NumTok(v.s)>>
      [] v.t = "none" -> <<NullTok>>
      [] v.t = "list" -> <<Punct("[")>> \o EncodeElems(v.items) \o <<Punct("]")>>
      [] v.t = "dict" -> <<Punct("{")>> \o EncodeMembers(v.keys, v.items) \o <<Punct("}")>>

EncodeElems(items) ==
    IF items = <<>> THEN <<>>
    ELSE Encode(Head(items))
         \o (IF Len(items) > 1 THEN <<Punct(",")>> ELSE <<>>)
         \o EncodeElems(Tail(items))

EncodeMembers(keys, items) ==
    IF keys = <<>> THEN <<>>
    ELSE <<StrTok(Head(keys)), Punct(":")>> \o Encode(Head(items))
         \o (IF Len(keys) > 1 THEN <<Punct(",")>> ELSE <<>>)
         \o EncodeMembers(Tail(keys), Tail(items))

\* json.loads, as a recursive-descent parser over the tokens.  A result is
\* [ok, v, i]: whether a value was read, the value, and the next position.
Fail == [ok |-> FALSE, v |-> PyNone, i |-> 0]

RECURSIVE ParseValue(_, _)
RECURSIVE ParseElems(_, _, _)
RECURSIVE ParseMembers(_, _, _)
ParseValue(toks, i) ==
    LET tk == TokAt(toks, i)
    IN  CASE tk.k = "str"  -> [ok |-> TRUE, v |-> PyStr(tk.s), i |-> i + 1]
          [] tk.k = "num"  -> [ok |-> TRUE, v |-> PyNum(tk.s), i |-> i + 1]
          [] tk.k = "null" -> [ok |-> TRUE, v |-> PyNone, i |-> i + 1]
          [] tk = Punct("[") ->
                IF TokAt(toks, i + 1) = Punct("]")
                THEN [ok |-> TRUE, v |-> PyList(<<>>), i |-> i + 2]
                ELSE ParseElems(toks, i + 1, <<>>)
          [] tk = Punct("{") ->
                IF TokAt(toks, i + 1) = Punct("}")
                THEN [ok |-> TRUE, v |-> PyDict(<<>>, <<>>), i |-> i + 2]
                ELSE ParseMembers(toks, i + 1, PyDict(<<>>, <<>>))
          [] OTHER -> Fail

ParseElems(toks, i, items) ==
    LET r == ParseValue(toks, i)
    IN  IF ~r.ok THEN Fail
        ELSE IF TokAt(toks, r.i) = Punct(",")
        THEN ParseElems(toks, r.i + 1, Append(items, r.v))
        ELSE IF TokAt(toks, r.i) = Punct("]")
        THEN [ok |-> TRUE, v |-> PyList(Append(items, r.v)), i |-> r.i + 1]
        ELSE Fail

ParseMembers(toks, i, d) ==
    IF TokAt(toks, i).k # "str" \/ TokAt(toks, i + 1) # Punct(":") THEN Fail
    ELSE LET r == ParseValue(toks, i + 2)
         IN  IF ~r.ok THEN Fail
             ELSE IF TokAt(toks, r.i) = Punct(",")
             THEN ParseMembers(toks, r.i + 1, DictPut(d, TokAt(toks, i).s, r.v))
             ELSE IF TokAt(toks, r.i) = Punct("}")
             THEN [ok |-> TRUE, v |-> DictPut(d, TokAt(toks, i).s, r.v), i |-> r.i + 1]
             ELSE Fail

\* a decoder that stops after the first value and ignores what follows it
JsonLoadsIgnoringRest(toks) == ParseValue(toks, 1)

\* json.loads(json_str): the whole text must be one value, else it raises
JsonLoads(toks) ==
    LET r == ParseValue(toks, 1)
    IN  IF r.ok /\ r.i = Len(toks) + 1 THEN r ELSE Fail

\* the search with a lazy quantifier: from the first "{" to the first "}" after it
BraceSpanLazy(text) ==
    LET opens == {i \in 1..Len(text) : text[i] = Punct("{")}
        first == CHOOSE i \in opens : \A j \in opens : i <= j
        closes == {j \in 1..Len(text) : text[j] = Punct("}") /\ j > first}
        last == CHOOSE j \in closes : \A l \in closes : j <= l
    IN  IF opens = {} \/ closes = {} THEN [found |-> FALSE, str |-> <<>>]
        ELSE [found |-> TRUE, str |-> SubSeq(text, first, last)]

\* re.search(r'({[\s\S]*})', text): from the first "{" to the last "}" after it
BraceSpan(text) ==
    LET opens == {i \in 1..Len(text) : text[i] = Punct("{")}
        first == CHOOSE i \in opens : \A j \in opens : i <= j
        closes == {j \in 1..Len(text) : text[j] = Punct("}") /\ j > first}
        last == CHOOSE j \in closes : \A l \in closes : l <= j
    IN  IF opens = {} \/ closes = {} THEN [found |-> FALSE, str |-> <<>>]
        ELSE [found |-> TRUE, str |-> SubSeq(text, first, last)]

\* parse_ai_response: the decoded object, or None (no brace span, or the decoder
\* raised and the except clause returned None)
parse_ai_response(response_text) ==
    LET json_match == BraceSpan(response_text)
    IN  IF json_match.found
        THEN LET r == JsonLoads(json_match.str)
             IN  IF r.ok THEN r.v ELSE PyNone
        ELSE PyNone


\* -------------------------------------------------------- slide assembly
\* a slide dict without the key 'subtitle'
NoKey == [t |-> "absent", s |-> <<>>, keys |-> <<>>, items |-> <<>>]

Slide(title, subtitle, content, notes) ==
    [title |-> title, subtitle |-> subtitle, content |-> content, notes |-> notes]

\* the title slide (lines 162-173)
TitleSlide(ai_content, points, audience, purpose) ==
    LET main_words == IF points # <<>>
                      THEN JoinSpace(Take(SplitWords(points[1]), 3))
                      ELSE <<"UCL Presentation">>
        title == IF Truthy(ai_content) /\ HasKey(ai_content, "title")
                 THEN GetKey(ai_content, "title")
                 ELSE PyStr(<<"UCL ">> \o TitleCase(main_words))
        subtitle == PyStr(<<"For ">> \o TitleCase(audience) \o <<":", " ">>
                          \o Capitalize(purpose))
    IN  Slide(title, subtitle, <<>>,
              PyStr(<<"Welcome. This presentation is designed for ">> \o audience
                    \o <<" to ">> \o purpose \o <<".">>))

\* whether list.extend(v) raises TypeError (v is not iterable)
NotIterable(v) == v.t \in {"num", "none"}

\* the elements list.extend(v) appends: the items of a list, the characters of a
\* str, the keys of a dict
IterItems(v) ==
    CASE v.t = "list" -> v.items
      [] v.t = "str"  -> [i \in 1..Len(v.s) |-> PyStr(<<v.s[i]>>)]
      [] v.t = "dict" -> [i \in 1..Len(v.keys) |-> PyStr(v.keys[i])]
      [] OTHER -> <<>>

\* point_data.get(key, default)
GetOr(d, k, default) == IF HasKey(d, k) THEN GetKey(d, k) ELSE default

\* the body of the loop over ai_content['points'] (lines 177-183):
\* [raised, slide], raised when a statement of the body raises
PointSlide(point_data, audience) ==
    LET main_point == GetOr(point_data, "main_point", PyStr(<<>>))
        sub == GetKey(point_data, "sub_points")
        extends == HasKey(point_data, "sub_points") /\ Truthy(sub)
        slide_title == IF Truthy(main_point)
                       THEN PyStr(SplitOn(main_point.s, ".")[1])
                       ELSE PyStr(<<"Key Point">>)
        content == <<main_point>> \o (IF extends THEN IterItems(sub) ELSE <<>>)
        notes == GetOr(point_data, "speaker_notes",
                       PyStr(<<"Discuss how this relates to ">> \o audience \o <<".">>))
    IN  IF point_data.t # "dict" THEN [raised |-> TRUE, slide |-> NoKey]
        ELSE IF Truthy(main_point) /\ main_point.t # "str"
        THEN [raised |-> TRUE, slide |-> NoKey]
        ELSE IF extends /\ NotIterable(sub) THEN [raised |-> TRUE, slide |-> NoKey]
        ELSE [raised |-> FALSE, slide |-> Slide(slide_title, NoKey, content, notes)]

RECURSIVE AIPointSlides(_, _)
AIPointSlides(pts, audience) ==
    IF pts = <<>> THEN [raised |-> FALSE, slides |-> <<>>]
    ELSE LET one == PointSlide(Head(pts), audience)
             rest == AIPointSlides(Tail(pts), audience)
         IN  IF one.raised \/ rest.raised THEN [raised |-> TRUE, slides |-> <<>>]
             ELSE [raised |-> FALSE, slides |-> <<one.slide>> \o rest.slides]

ClosingNotes == PyStr(<<"Summarize the presentation and open for questions.">>)

GenericClosing(audience) ==
    Slide(PyStr(<<"Next Steps">>), NoKey,
          << PyStr(<<"Summary of key points">>),
             PyStr(<<"Application for ">> \o audience),
             PyStr(<<"Contact for further information">>) >>,
          ClosingNotes)

\* the closing slide of the AI branch (lines 186-197)
AIClosing(ai_content, audience) ==
    IF HasKey(ai_content, "conclusion") /\ GetKey(ai_content, "conclusion").t = "list"
    THEN Slide(PyStr(<<"Next Steps">>), NoKey,
               GetKey(ai_content, "conclusion").items, ClosingNotes)
    ELSE GenericClosing(audience)

\* one slide per bullet (lines 201-209)
FocusSlide(point, audience) ==
    LET words == SplitWords(point)
        slide_title == TitleCase(JoinSpace(Take(words, 3)))
    IN  Slide(PyStr(<<"Focus on ">> \o slide_title), NoKey, <<PyStr(point)>>,
              PyStr(<<"Key point: ">> \o point \o <<". Explain how this benefits ">>
                    \o audience \o <<".">>))

\* one slide for a group of bullets (lines 213-220)
GroupSlide(group) ==
    LET words == SplitWords(group[1])
        slide_title == TitleCase(JoinSpace(Take(words, 3)))
    IN  Slide(PyStr(slide_title), NoKey, [i \in 1..Len(group) |-> PyStr(group[i])],
              PyStr(<<"Discuss these ", ToString(Len(group)),
                      " related points and their impact.">>))

\* points_per_slide = max(1, len(points) // (slide_count - 2))
PointsPerSlide(n, slide_count) ==
    LET q == n \div (slide_count - 2) IN IF q > 1 THEN q ELSE 1

\* for i in range(0, len(points), points_per_slide): points[i:i+points_per_slide]
RECURSIVE GroupSlides(_, _)
GroupSlides(points, per) ==
    IF points = <<>> THEN <<>>
    ELSE <<GroupSlide(Take(points, per))>> \o GroupSlides(Drop(points, per), per)

\* the slides of the else branch before its closing slide (lines 200-220)
FallbackContent(points, audience, slide_count) ==
    IF Len(points) <= slide_count - 2
    THEN [i \in 1..Len(points) |-> FocusSlide(points[i], audience)]
    ELSE GroupSlides(points, PointsPerSlide(Len(points), slide_count))

\* the condition of line 175
UsesAIBranch(ai_content) ==
    /\ Truthy(ai_content)
    /\ HasKey(ai_content, "points")
    /\ GetKey(ai_content, "points").t = "list"

\* lines 161-225: [raised, slides], the list before the limit of lines 227-229
Assemble(ai_content, points, audience, purpose, slide_count) ==
    LET first == TitleSlide(ai_content, points, audience, purpose)
    IN  IF UsesAIBranch(ai_content)
        THEN LET body == AIPointSlides(GetKey(ai_content, "points").items, audience)
             IN  IF body.raised THEN [raised |-> TRUE, slides |-> <<>>]
                 ELSE [raised |-> FALSE,
                       slides |-> <<first>> \o body.slides
                                  \o <<AIClosing(ai_content, audience)>>]
        ELSE [raised |-> FALSE,
              slides |-> <<first>> \o FallbackContent(points, audience, slide_count)
                         \o <<GenericClosing(audience)>>]

\* the limit with the middle slice one slide too long: slides[1:slide_count]
LimitSlidesLongSlice(slides, slide_count) ==
    IF Len(slides) > slide_count
    THEN <<slides[1]>> \o SubSeq(slides, 2, slide_count) \o <<slides[Len(slides)]>>
    ELSE slides

\* the limit as a plain cut, slides[:slide_count], which loses the closing slide
LimitSlidesPlainCut(slides, slide_count) ==
    IF Len(slides) > slide_count THEN SubSeq(slides, 1, slide_count) ELSE slides

\* lines 228-229: slides = [slides[0]] + slides[1:slide_count-1] + [slides[-1]]
LimitSlides(slides, slide_count) ==
    IF Len(slides) > slide_count
    THEN <<slides[1]>> \o SubSeq(slides, 2, slide_count - 1) \o <<slides[Len(slides)]>>
    ELSE slides


\* ------------------------------------------------------------------ inputs
\* lines a user types: a bullet, a line without a dash, and a line with
\* surrounding blanks and a doubled dash
InputLines == { <<"-", " ", "a">>, <<"x">>, <<" ", "-", "-", " ", "b", " ">> }

RECURSIVE JoinLines(_)
JoinLines(lines) ==
    IF lines = <<>> THEN <<>>
    ELSE IF Len(lines) = 1 THEN lines[1]
    ELSE lines[1] \o <<"\n">> \o JoinLines(Tail(lines))

InputTexts == {JoinLines(ls) : ls \in UNION {[1..n -> InputLines] : n \in 0..MaxLines}}

Audiences == { <<"tourists">> }

Purposes == { <<"provide travel information">> }

\* elements of the "points" array: a full point, a record with no field, and
\* an element that is no record
GoodPoint ==
    PyDict(<< <<"main_point">>, <<"sub_points">>, <<"speaker_notes">> >>,
           << PyStr(<<"Visit the lake", ".">>),
              PyList(<<PyStr(<<"nice views">>)>>),
              PyStr(<<"talk about lake">>) >>)

EmptyPoint == PyDict(<<>>, <<>>)

PointChoices == {GoodPoint, EmptyPoint, PyNum(<<"5">>)}

\* points whose fields have the wrong shape
ShapedPoints ==
    { PyDict(<< <<"main_point">> >>, << PyNum(<<"5">>) >>),
      PyDict(<< <<"main_point">> >>, << PyNone >>),
      PyDict(<< <<"main_point">>, <<"sub_points">> >>,
             << PyStr(<<"Visit the lake", ".">>), PyNum(<<"5">>) >>),
      PyDict(<< <<"main_point">>, <<"sub_points">> >>,
             << PyStr(<<>>), PyStr(<<"n", "o">>) >>),
      PyDict(<< <<"sub_points">>, <<"speaker_notes">> >>,
             << PyList(<<>>), PyNone >>) }

TitleChoices == {NoKey, PyStr(<<"Geneva Trip">>)}

ConclusionChoices ==
    {NoKey, PyList(<<>>), PyList(<<PyStr(<<"Book now">>)>>), PyStr(<<"Book now">>)}

\* the object with the given title, points and conclusion (NoKey: no such key)
RECURSIVE WithKeys(_, _)
WithKeys(keys, vals) ==
    IF keys = <<>> THEN PyDict(<<>>, <<>>)
    ELSE LET rest == WithKeys(Tail(keys), Tail(vals))
         IN  IF Head(vals) = NoKey THEN rest
             ELSE PyDict(<<Head(keys)>> \o rest.keys, <<Head(vals)>> \o rest.items)

AIObject(title, pts, conclusion) ==
    WithKeys(<< <<"title">>, <<"points">>, <<"conclusion">> >>, <<title, pts, conclusion>>)

PointLists == UNION {[1..n -> PointChoices] : n \in 0..MaxPoints}

\* decoded answers: every list of points, every title and conclusion, every
\* wrongly shaped point
AIObjects ==
    {AIObject(PyStr(<<"Geneva Trip">>), PyList(pts), PyList(<<PyStr(<<"Book now">>)>>)) :
        pts \in PointLists}
    \cup {AIObject(t, p, c) : t \in TitleChoices, c \in ConclusionChoices,
                              p \in {NoKey, PyStr(<<"none">>), PyList(<<>>), PyList(<<GoodPoint>>)}}
    \cup {AIObject(NoKey, PyList(<<p>>), NoKey) : p \in ShapedPoints}

\* answers that hold no decodable object: no text, prose only, an opening brace
\* alone, a closing brace before the opening one, an object cut short, an
\* object followed by a stray brace
BrokenTexts ==
    { <<>>,
      <<Word("Sorry")>>,
      <<Punct("{"), Word("oops")>>,
      <<Punct("}"), Word("oops"), Punct("{")>>,
      <<Punct("{"), StrTok(<<"title">>), Punct(":"), Punct("}")>>,
      Encode(AIObject(PyStr(<<"Geneva Trip">>), PyList(<<GoodPoint>>), NoKey))
          \o <<Punct("}")>> }

\* what generate_content_with_gemini returns: None when the call raised, else
\* response.text
NoResponse == [none |-> TRUE, text |-> <<>>]

TextResponse(text) == [none |-> FALSE, text |-> text]

Responses ==
    {NoResponse}
    \cup {TextResponse(t) : t \in BrokenTexts}
    \cup {TextResponse(Encode(j)) : j \in AIObjects}
    \cup {TextResponse(<<Word("Here you go:")>> \o Encode(j) \o <<Word("Enjoy")>>) :
            j \in {AIObject(PyStr(<<"Geneva Trip">>), PyList(<<GoodPoint>>),
                            PyList(<<PyStr(<<"Book now">>)>>))}}

\* ------------------------------------------------------------------- state
VARIABLES
    pc,             \* position in generate_presentation / enhance_content_with_ai
    bullet_points,  \* the text of the text area
    audience, purpose, slide_count, use_ai,
    points,         \* the parsed bullets
    ai_response,    \* what generate_content_with_gemini returned
    ai_content,     \* what parse_ai_response returned (PyNone: None)
    slides,         \* the list built by lines 161-225
    deck,           \* the list enhance_content_with_ai returns
    outcome,        \* "none", "InputEmpty", "Deck" (preview and file), "Error"
    raised_in,      \* the function whose exception line 434 caught
    rendered,       \* calls of create_presentation
    embedded        \* ExtractSpec only: the prose and the object the answer was written from

vars == <<pc, bullet_points, audience, purpose, slide_count, use_ai, points,
          ai_response, ai_content, slides, deck, outcome, raised_in, rendered, embedded>>

inputs == <<bullet_points, audience, purpose, slide_count, use_ai, embedded>>

NoEmbedded == [prefix |-> <<>>, obj |-> PyNone, suffix |-> <<>>]

Init ==
    /\ pc = "start"
    /\ bullet_points \in InputTexts
    /\ audience \in Audiences
    /\ purpose \in Purposes
    /\ slide_count \in MinSlides..MaxSlides
    /\ use_ai \in BOOLEAN
    /\ points = <<>>
    /\ ai_response = NoResponse
    /\ ai_content = PyNone
    /\ slides = <<>>
    /\ deck = <<>>
    /\ outcome = "none"
    /\ raised_in = "none"
    /\ rendered = 0
    /\ embedded = NoEmbedded

\* lines 149-155 (and 422-423 when no bullet was found)
ParseInput ==
    /\ pc = "start"
    /\ points' = ParseBullets(bullet_points)
    /\ IF points' = <<>>
       THEN pc' = "done" /\ outcome' = "InputEmpty"
       ELSE pc' = (IF use_ai THEN "call_ai" ELSE "assemble") /\ outcome' = outcome
    /\ UNCHANGED <<inputs, ai_response, ai_content, slides, deck, raised_in, rendered>>

\* line 157-158: the call of the hosted model, which fails or returns a text
CallGemini ==
    /\ pc = "call_ai"
    /\ \E r \in Responses :
          /\ ai_response' = r
          /\ pc' = IF ~r.none /\ r.text # <<>> THEN "parse_ai" ELSE "assemble"
    /\ UNCHANGED <<inputs, points, ai_content, slides, deck, outcome, raised_in, rendered>>

\* line 159
ParseAI ==
    /\ pc = "parse_ai"
    /\ ai_content' = parse_ai_response(ai_response.text)
    /\ pc' = "assemble"
    /\ UNCHANGED <<inputs, points, ai_response, slides, deck, outcome, raised_in, rendered>>

\* lines 161-225; an exception leaves through the handler of lines 434-437
AssembleSlides ==
    /\ pc = "assemble"
    /\ LET r == Assemble(ai_content, points, audience, purpose, slide_count)
       IN  IF r.raised
           THEN /\ pc' = "done"
                /\ outcome' = "Error"
                /\ raised_in' = "enhance_content_with_ai"
                /\ slides' = slides
           ELSE /\ pc' = "limit"
                /\ slides' = r.slides
                /\ UNCHANGED <<outcome, raised_in>>
    /\ UNCHANGED <<inputs, points, ai_response, ai_content, deck, rendered>>

\* lines 227-230
LimitStep ==
    /\ pc = "limit"
    /\ deck' = LimitSlides(slides, slide_count)
    /\ pc' = "render"
    /\ UNCHANGED <<inputs, points, ai_response, ai_content, slides, outcome, raised_in, rendered>>

\* lines 425-432: the preview and the call of create_presentation, which
\* returns a file or raises
Render ==
    /\ pc = "render"
    /\ rendered' = rendered + 1
    /\ \E ok \in BOOLEAN :
          IF ok THEN outcome' = "Deck" /\ raised_in' = raised_in
          ELSE outcome' = "Error" /\ raised_in' = "create_presentation"
    /\ pc' = "done"
    /\ UNCHANGED <<inputs, points, ai_response, ai_content, slides, deck>>

Next == ParseInput \/ CallGemini \/ ParseAI \/ AssembleSlides \/ LimitStep \/ Render

Spec == Init /\ [][Next]_vars


\* --------------------------------------- parse_ai_response on its own
\* prose around the object: words and stray braces
ProseTokens == {Word("ok"), Punct("{"), Punct("}")}

ProseTexts == UNION {[1..n -> ProseTokens] : n \in 0..MaxProse}

\* objects written into the answer: the empty object, a flat one, one with a
\* nested record
EmbeddedObjects ==
    { PyDict(<<>>, <<>>),
      AIObject(PyStr(<<"Geneva Trip">>), NoKey, PyList(<<>>)),
      AIObject(PyStr(<<"Geneva Trip">>), PyList(<<GoodPoint>>),
               PyList(<<PyStr(<<"Book now">>)>>)) }

InitExtract ==
    /\ pc = "parse_ai"
    /\ embedded \in [prefix : ProseTexts, obj : EmbeddedObjects, suffix : ProseTexts]
    /\ ai_response = TextResponse(embedded.prefix \o Encode(embedded.obj) \o embedded.suffix)
    /\ bullet_points = <<>>
    /\ audience \in Audiences
    /\ purpose \in Purposes
    /\ slide_count = MinSlides
    /\ use_ai = TRUE
    /\ points = <<>>
    /\ ai_content = PyNone
    /\ slides = <<>>
    /\ deck = <<>>
    /\ outcome = "none"
    /\ raised_in = "none"
    /\ rendered = 0

ExtractSpec == InitExtract /\ [][ParseAI]_vars


\* ================================================================ claims
Assembled == pc \in {"limit", "render", "done"} /\ slides # <<>>

Returned == pc \in {"render", "done"} /\ deck # <<>>

\* ----------------------------------------------------------------- C1
\* C1: the deck returned by enhance_content_with_ai never has more than
\* slide_count slides, whatever the bullets, use_ai and the AI answer.
C1_DeckWithinSlideCount == Len(deck) <= slide_count

\* an AI deck that the limit of lines 228-229 shortened
C1_Witness ==
    /\ Returned
    /\ UsesAIBranch(ai_content)
    /\ Len(slides) > slide_count
    /\ Len(deck) = slide_count

\* ----------------------------------------------------------------- C2
WellShaped(list) ==
    list # <<>> =>
        /\ list[1].subtitle # NoKey
        /\ list[1].content = <<>>
        /\ \A i \in 2..Len(list) :
              list[i].content # <<>> /\ list[i].subtitle = NoKey

\* C2: before and after the limit, slide 0 has a subtitle and empty content
\* and every other slide has non-empty content and no subtitle.
C2_SlidesWellShaped == WellShaped(slides) /\ WellShaped(deck)

\* ----------------------------------------------------------------- C3
\* no line of the text starts, once trimmed, with a dash
NoDashLine(text) ==
    \A i \in 1..Len(SplitOn(text, "\n")) : ~StartsWith(Strip(SplitOn(text, "\n")[i]), "-")

\* C3: with no dash line, the run ends InputEmpty straight after parsing: no
\* list of slides is built and create_presentation is never called.
C3_InputEmpty ==
    NoDashLine(bullet_points) =>
        /\ pc \in {"start", "done"}
        /\ pc = "done" => outcome = "InputEmpty"
        /\ slides = <<>> /\ deck = <<>>
        /\ rendered = 0

C3_Witness ==
    /\ pc = "done"
    /\ bullet_points # <<>>
    /\ NoDashLine(bullet_points)
    /\ outcome = "InputEmpty"
    /\ rendered = 0

\* ----------------------------------------------------------------- C4
\* the call failed, or its text is one of the texts holding no decodable object
AIUnavailable == ai_response.none \/ ai_response.text \in BrokenTexts

\* the deck of the same bullets, audience, purpose and slide_count without AI
FallbackList ==
    <<TitleSlide(PyNone, points, audience, purpose)>>
    \o FallbackContent(points, audience, slide_count)
    \o <<GenericClosing(audience)>>

\* C4: with use_ai set and bullets present, a failed call or an answer with no
\* decodable object does not abort the run, and the deck is the fallback deck.
C4_UnavailableFallsBack ==
    (use_ai /\ points # <<>> /\ AIUnavailable /\ pc \in {"limit", "render", "done"}) =>
        /\ raised_in # "enhance_content_with_ai"
        /\ slides = FallbackList
        /\ pc # "limit" => deck = LimitSlides(FallbackList, slide_count)

\* an answer whose brace span does not decode, rendered as the fallback deck
C4_Witness ==
    /\ use_ai /\ pc = "done" /\ outcome = "Deck"
    /\ ~ai_response.none
    /\ BraceSpan(ai_response.text).found
    /\ ai_response.text \in BrokenTexts
    /\ deck = LimitSlides(FallbackList, slide_count)

\* ----------------------------------------------------------------- C5
\* C5: once an AIContent object was decoded, assembly never raises, whatever
\* the shape of its fields.
C5_DecodedNeverFails ==
    ai_content # PyNone => raised_in # "enhance_content_with_ai"


\* ----------------------------------------------------------------- C6
HasBrace(text, c) == \E i \in 1..Len(text) : text[i] = Punct(c)

\* C6 as stated: the object written into the answer is recovered whatever the
\* prose around it, stray braces included.
C6_RecoversEmbedded ==
    pc = "assemble" => PyEq(ai_content, embedded.obj)

\* C6 amended: the object is recovered when the prose before it holds no "{"
\* and the prose after it holds no "}".
C6_RecoversWhenProseClean ==
    (/\ pc = "assemble"
     /\ ~HasBrace(embedded.prefix, "{")
     /\ ~HasBrace(embedded.suffix, "}")) => PyEq(ai_content, embedded.obj)

\* a nested object recovered from between prose that holds words and the
\* harmless braces
C6_Witness ==
    /\ pc = "assemble"
    /\ HasBrace(embedded.prefix, "}") /\ ~HasBrace(embedded.prefix, "{")
    /\ HasBrace(embedded.suffix, "{") /\ ~HasBrace(embedded.suffix, "}")
    /\ HasKey(embedded.obj, "points")
    /\ PyEq(ai_content, embedded.obj)

\* ----------------------------------------------------------------- C7
\* a trimmed dash line without its marker and without one following space
WithoutMarker(line) ==
    LET rest == Tail(Strip(line))
    IN  IF StartsWith(rest, " ") THEN Tail(rest) ELSE rest

RECURSIVE MarkedLines(_)
MarkedLines(lines) ==
    IF lines = <<>> THEN <<>>
    ELSE (IF StartsWith(Strip(Head(lines)), "-") THEN <<WithoutMarker(Head(lines))>> ELSE <<>>)
         \o MarkedLines(Tail(lines))

\* C7: the parsed bullets are, in order, the dash lines of the text, each
\* trimmed and with only the marker and one following space removed.
C7_BulletsKeepRest ==
    pc # "start" => points = MarkedLines(SplitOn(bullet_points, "\n"))

\* ----------------------------------------------------------------- C8
FallbackTaken == Assembled /\ ~UsesAIBranch(ai_content)

CeilDiv(n, d) == (n + d - 1) \div d

\* C8: with more bullets than budget = slide_count - 2, the fallback builds
\* groups of ceil(len/budget) bullets (the last may be shorter), so at most
\* budget content slides.
C8_GroupsOfCeilSize ==
    (FallbackTaken /\ Len(points) > slide_count - 2) =>
        LET budget == slide_count - 2
            size == CeilDiv(Len(points), budget)
            n == Len(slides) - 2
        IN  /\ n <= budget
            /\ \A i \in 1..n :
                  IF i < n THEN Len(slides[i + 1].content) = size
                  ELSE Len(slides[i + 1].content) \in 1..size

\* ----------------------------------------------------------------- C9
RECURSIVE ContentsOf(_)
ContentsOf(list) ==
    IF list = <<>> THEN <<>> ELSE Head(list).content \o ContentsOf(Tail(list))

\* C9: in the fallback path the slides between the title slide and the closing
\* slide of the returned deck hold every bullet exactly once, in input order.
C9_DeckKeepsEveryBullet ==
    (FallbackTaken /\ Returned) =>
        ContentsOf(SubSeq(deck, 2, Len(deck) - 1)) = [i \in 1..Len(points) |-> PyStr(points[i])]

\* ---------------------------------------------------------------- C10
HasPoints(content) ==
    /\ Truthy(content)
    /\ HasKey(content, "points")
    /\ GetKey(content, "points").t = "list"
    /\ GetKey(content, "points").items # <<>>

\* C10: unless the decoded object has a non-empty points list, the slides after
\* the title slide are the fallback slides built from the bullets.
C10_NoPointsMeansFallback ==
    (Assembled /\ ~HasPoints(ai_content)) => Tail(slides) = Tail(FallbackList)


\* ---------------------------------------------------------------- C11
\* the conclusion of the decoded object is a list with at least one element
HasConclusion(content) ==
    /\ HasKey(content, "conclusion")
    /\ GetKey(content, "conclusion").t = "list"
    /\ GetKey(content, "conclusion").items # <<>>

\* C11: in the AI branch the closing slide shows the conclusion list when it
\* is present and non-empty, and the generic closing content otherwise
\* (conclusion absent, not a list, or an empty list).
C11_ClosingContent ==
    (Assembled /\ UsesAIBranch(ai_content)) =>
        slides[Len(slides)].content =
            IF HasConclusion(ai_content)
            THEN GetKey(ai_content, "conclusion").items
            ELSE GenericClosing(audience).content


\* ---------------------------------------------------------------- C12
\* C12: a list longer than slide_count is cut to exactly slide_count slides:
\* its title slide, its first slide_count - 2 content slides in order, and its
\* closing "Next Steps" slide; a list of at most slide_count slides is
\* returned unchanged.  So every returned deck starts with the title slide,
\* ends with the closing slide and has at least 2 slides.
C12_LimitKeepsEnds ==
    Returned =>
        /\ IF Len(slides) > slide_count
           THEN /\ Len(deck) = slide_count
                /\ \A i \in 1..(slide_count - 1) : deck[i] = slides[i]
           ELSE deck = slides
        /\ Len(deck) >= 2
        /\ deck[1] = slides[1]
        /\ deck[1].subtitle # NoKey
        /\ deck[Len(deck)] = slides[Len(slides)]
        /\ deck[Len(deck)].title = PyStr(<<"Next Steps">>)

\* a fallback list of five slides cut to four: two content slides are kept,
\* one is dropped, and the closing slide is still last
C12_Witness ==
    /\ Returned
    /\ slide_count > MinSlides
    /\ Len(slides) > slide_count
    /\ Len(deck) = slide_count
    /\ deck[slide_count - 1] = slides[slide_count - 1]
    /\ deck[slide_count] = slides[Len(slides)]

====
